---- MODULE Spec2Model ----
(***************************************************************************)
(* The DSA facade of src/index.js as a state machine.                      *)
(*                                                                         *)
(* src/index.js holds two definitions of the class (lines 11-342 and       *)
(* 362-664); `ver` says which one the facade object was built from.        *)
(*                                                                         *)
(* One asynchronous call of the facade is in flight at a time (`call`);    *)
(* each action runs the synchronous code between two await points.  The    *)
(* synchronous operations (setOrigin, Spell(), add, a caller's write to    *)
(* instance.config) are interleaved where a call can observe them: before  *)
(* it starts and while it awaits getAddress, after which it reads the      *)
(* facade and the spell list.  Past that point a call reads nothing they   *)
(* write except instance.config (line 246), so only that write is          *)
(* interleaved there.  A finished call's record is kept until the caller   *)
(* goes on to the next operation.                                          *)
(*                                                                         *)
(* JS values: Undef stands for undefined and for every falsy string, and   *)
(* the number 0 for every falsy number: the code's `!x` guards treat them  *)
(* alike.                                                                  *)
(***************************************************************************)
EXTENDS Integers, Sequences, FiniteSets, TLC

\* ------------------------------------------------------------- bounds
MaxId == 2      \* account ids passed to setInstance are 0..MaxId
MaxCount == 1   \* the chain's account count is 0..MaxCount
MaxAdds == 2    \* add calls made on one Spell object (SpecSpell)
MaxSpells == 1  \* add calls made on one Spell object (Spec)

\* ---------------------------------------------------- program constants
GenesisId == 0
GenesisVersion == 1
DefaultVersion == 1
TypeDirect == 0
TypeGnosisSafe == 1

Undef == "undefined"
Genesis == "address.genesis"
CoreIndex == "address.core.index"
Web3 == "web3"

VARIABLES
  ver,         \* 1: class of lines 11-342, 2: class of lines 362-664
  web3,        \* this.web3
  mode,        \* this.mode
  privateKey,  \* this.privateKey
  address,     \* this.address (the address registry), Undef when never set
  ABI,         \* this.ABI (the ABI registry), Undef when never set
  helpers,     \* this.internal, this.account, this.sendTxn, ... are attached
  origin,      \* this.origin
  instance,    \* this.instance
  call,        \* the asynchronous call in flight, or the last one finished
  data,        \* Spell.data of the Spell object in use
  adds,        \* history: every operation passed to add on that object
  addResult,   \* how the last add call ended
  lastRes      \* history: response of the last successful setInstance lookup

vars == <<ver, web3, mode, privateKey, address, ABI, helpers, origin, instance,
          call, data, adds, addResult, lastRes>>

\* ---------------------------------------------------------- constructor

\* String.prototype.toLowerCase on the mode strings a caller passes.
toLowerCase(s) == IF s \in {"node", "NODE", "Node"} THEN "node" ELSE s

\* config.privateKey.slice(0, 2) != "0x" ? "0x" + key : key
\* (the keys are "k" and "0xk")
prefixed(key) == IF key = "k" THEN "0xk" ELSE key

Configs == [mode : {Undef, "NODE", "node"}, privateKey : {Undef, "k", "0xk"}]

NoConfig == [defined |-> FALSE, type |-> 0, gnosisSafe |-> Undef]
NoInstance == [defined |-> FALSE, id |-> 0, address |-> Undef, version |-> 0,
               config |-> NoConfig]
GenesisInstance == [defined |-> TRUE, id |-> GenesisId, address |-> Genesis,
                    version |-> GenesisVersion, config |-> NoConfig]

ModeOf(config) == IF config.mode # Undef THEN toLowerCase(config.mode) ELSE "browser"

\* The constructor returns early, before any field after `mode` is set.
ReturnsEarly(config) == ModeOf(config) = "node" /\ config.privateKey = Undef

NoParams == [authority |-> Undef, version |-> 0, origin |-> Undef, from |-> Undef,
             to |-> Undef, form |-> "num", idv |-> "finite", id |-> 0,
             protocol |-> Undef]
NoCallData == [method |-> "none", authority |-> Undef, version |-> 0,
               origin |-> Undef, targets |-> <<>>, datas |-> <<>>]
NoTx == [from |-> Undef, to |-> Undef, data |-> NoCallData]
NoD == [from |-> Undef, to |-> Undef, origin |-> Undef, hasType |-> FALSE,
        type |-> 0, callData |-> NoCallData]
NoRes == <<0, Undef, 0>>
NoCall == [op |-> "none", pc |-> "done", p |-> NoParams, d |-> NoD,
           promise |-> "none", value |-> "none", res |-> NoRes, err |-> "none",
           count |-> 0, tx |-> NoTx, sent |-> <<>>, unhandled |-> "none"]

DSA(config) ==
  /\ web3 = Web3
  /\ mode = ModeOf(config)
  /\ privateKey = IF ModeOf(config) = "node" /\ ~ReturnsEarly(config)
                  THEN prefixed(config.privateKey) ELSE Undef
  /\ address = IF ReturnsEarly(config) THEN Undef ELSE "addresses.js"
  /\ ABI = IF ReturnsEarly(config) THEN Undef ELSE "abis.js"
  /\ instance = IF ReturnsEarly(config) THEN NoInstance ELSE GenesisInstance
  /\ origin = IF ReturnsEarly(config) THEN Undef ELSE Genesis
  /\ helpers = ~ReturnsEarly(config)

Init ==
  /\ ver \in {1, 2}
  /\ \E config \in Configs : DSA(config)
  /\ call = NoCall
  /\ data = <<>>
  /\ adds = <<>>
  /\ addResult = "none"
  /\ lastRes = NoRes

\* ---------------------------------------------------------------- calls

Idle == call.pc = "done"

\* Where a synchronous operation of the caller is interleaved.
Observable == call.pc \in {"done", "getAddress"}

\* The caller goes on: the record of a finished call is dropped.
GoesOn == IF call.pc = "done" THEN NoCall ELSE call

NewCall(op, p) == [NoCall EXCEPT !.op = op, !.p = p, !.pc = "start",
                                 !.promise = "pending"]

Resolve(c, v) == [c EXCEPT !.pc = "done", !.promise = "resolved", !.value = v]
Reject(c, e) == [c EXCEPT !.pc = "done", !.promise = "rejected", !.value = e]
\* An exception inside `new Promise(async (resolve, reject) => ...)` or inside
\* an async .catch handler rejects that inner promise only: the promise the
\* caller holds is never settled.
Lost(c, e) == [c EXCEPT !.pc = "done", !.unhandled = e]

facadeAndSpell == <<ver, web3, mode, privateKey, address, ABI, helpers, origin,
                    instance, data, adds, addResult, lastRes>>

\* ------------------------------------------------------------ setOrigin

Origins == {"o1"}

setOrigin(_origin) ==
  /\ Observable
  /\ origin' = _origin
  /\ call' = GoesOn
  /\ UNCHANGED <<ver, web3, mode, privateKey, address, ABI, helpers, instance,
                 data, adds, addResult, lastRes>>

\* ------------------------------------------------- helpers (internal.js)

Signer == "signer"

\* internal.getAddress(): the session's signer address, or a failure.  With a
\* held private key the address is derived from the key and cannot fail.
getAddressResults ==
  IF mode = "node" THEN {Signer} ELSE {Signer, "getAddressErr"}

\* internal.getTxObj(_d): the complete descriptor of a partial one (the gas,
\* gasPrice and nonce it fills in are left out: no claim reads them).
getTxObj(_d) == [from |-> _d.from, to |-> _d.to, data |-> _d.callData]

\* internal.encodeSpells(_d): the parallel arrays of connector names and of
\* encoded calls, one position per spell, in the order of the list.
encodeSpells(spells) ==
  << [i \in 1..Len(spells) |-> spells[i].connector],
     [i \in 1..Len(spells) |-> <<spells[i].method, spells[i].args>>] >>

\* The protocols of the read registry (address.read / ABI.read).
ReadRegistry == {"core", "compound"}

\* ---------------------------------------------------------------- build

\* The parameter objects: absent or empty, some fields set, every field set.
BuildParams ==
  { NoParams,
    [NoParams EXCEPT !.authority = "u1"],
    [NoParams EXCEPT !.version = 2, !.origin = "po"],
    [NoParams EXCEPT !.authority = "u1", !.version = 2, !.origin = "po",
                     !.from = "u2"] }

BuildCallData(authority, version, org) ==
  [NoCallData EXCEPT !.method = "build", !.authority = authority,
                     !.version = version, !.origin = org]

\* buildD with `from` left as the caller gave it (as buildTxObj does).
buildD_noFrom(_d, _addr) ==
  LET authority == IF _d.authority = Undef THEN _addr ELSE _d.authority
      version == IF _d.version = 0 THEN DefaultVersion ELSE _d.version
      org == IF _d.origin = Undef THEN origin ELSE _d.origin
  IN [NoD EXCEPT !.from = _d.from, !.to = CoreIndex, !.origin = org,
                 !.callData = BuildCallData(authority, version, org)]

\* Lines 153-167: the defaults of build and the encoded call.
buildD(_d, _addr) ==
  LET authority == IF _d.authority = Undef THEN _addr ELSE _d.authority
      version == IF _d.version = 0 THEN DefaultVersion ELSE _d.version
      org == IF _d.origin = Undef THEN origin ELSE _d.origin
      from == IF _d.from = Undef THEN _addr ELSE _d.from
  IN [NoD EXCEPT !.from = from, !.to = CoreIndex, !.origin = org,
                 !.callData = BuildCallData(authority, version, org)]

\* build(_d) up to `await this.internal.getAddress()`.
build(_d) ==
  /\ Idle
  /\ call' = IF helpers
             THEN [NewCall("build", _d) EXCEPT !.pc = "getAddress"]
             ELSE Reject(NewCall("build", _d), "TypeError")
  /\ UNCHANGED facadeAndSpell

\* getAddress settles; lines 153-170 run up to `await getTxObj(_d)`.
build_getAddress ==
  /\ call.op = "build" /\ call.pc = "getAddress"
  /\ \E _addr \in getAddressResults :
       call' = IF _addr = "getAddressErr"
               THEN Reject([call EXCEPT !.err = _addr], _addr)
               ELSE [call EXCEPT !.pc = "getTxObj", !.d = buildD(call.p, _addr)]
  /\ UNCHANGED facadeAndSpell

\* getTxObj settles; line 171 hands the descriptor to sendTxn.
build_getTxObj ==
  /\ call.op = "build" /\ call.pc = "getTxObj"
  /\ \E ok \in BOOLEAN :
       call' = IF ok
               THEN [call EXCEPT !.pc = "sendTxn",
                                 !.sent = Append(@, getTxObj(call.d))]
               ELSE Lost([call EXCEPT !.err = "getTxObjErr"], "getTxObjErr")
  /\ UNCHANGED facadeAndSpell

\* sendTxn settles; lines 172-173.
build_sendTxn ==
  /\ call.op = "build" /\ call.pc = "sendTxn"
  /\ \E ok \in BOOLEAN :
       call' = IF ok THEN Resolve(call, "tx")
               ELSE Reject([call EXCEPT !.err = "sendTxnErr"], "sendTxnErr")
  /\ UNCHANGED facadeAndSpell

\* ----------------------------------------------------------- buildTxObj

\* Lines 186-199.  `_addr` is declared nowhere in buildTxObj: reading it
\* throws a ReferenceError (class bodies are strict code).
buildTxObjD(_d) ==
  LET version == IF _d.version = 0 THEN DefaultVersion ELSE _d.version
      org == IF _d.origin = Undef THEN origin ELSE _d.origin
  IN [NoD EXCEPT !.from = _d.from, !.to = CoreIndex, !.origin = org,
                 !.callData = BuildCallData(_d.authority, version, org)]

buildTxObj(_d) ==
  /\ Idle
  /\ call' = IF _d.authority = Undef
             THEN Reject(NewCall("buildTxObj", _d), "ReferenceError")
             ELSE IF address = Undef
             THEN Reject(NewCall("buildTxObj", _d), "TypeError")
             ELSE [NewCall("buildTxObj", _d) EXCEPT !.pc = "getTxObj",
                                                    !.d = buildTxObjD(_d)]
  /\ UNCHANGED facadeAndSpell

\* Lines 201-202.
buildTxObj_getTxObj ==
  /\ call.op = "buildTxObj" /\ call.pc = "getTxObj"
  /\ \E ok \in BOOLEAN :
       call' = IF ok THEN Resolve([call EXCEPT !.tx = getTxObj(call.d)], "txObj")
               ELSE Reject([call EXCEPT !.err = "getTxObjErr"], "getTxObjErr")
  /\ UNCHANGED facadeAndSpell

\* ---------------------------------------------------------------- Spell

Ops ==
  { [connector |-> "compound", method |-> "deposit", args |-> "args1"],
    [connector |-> "maker", method |-> "draw", args |-> "args2"],
    [connector |-> Undef, method |-> "deposit", args |-> "args1"],
    [connector |-> "compound", method |-> Undef, args |-> "args1"],
    [connector |-> "compound", method |-> "deposit", args |-> Undef] }

\* Spell(): a fresh object with an empty list.
Spell ==
  /\ Observable
  /\ data' = <<>>
  /\ adds' = <<>>
  /\ addResult' = "none"
  /\ call' = GoesOn
  /\ UNCHANGED <<ver, web3, mode, privateKey, address, ABI, helpers, origin,
                 instance, lastRes>>

\* addData with unshift in place of push.
addData_unshift(list, _s) ==
  IF _s.connector = Undef THEN list
  ELSE IF _s.method = Undef THEN list
  ELSE IF _s.args = Undef THEN list
  ELSE <<_s>> \o list

\* What add(_s) leaves in the list: the three guards, then the push.
addData(list, _s) ==
  IF _s.connector = Undef THEN list
  ELSE IF _s.method = Undef THEN list
  ELSE IF _s.args = Undef THEN list
  ELSE Append(list, _s)

\* How add(_s) ends: `return console.error(...)` logs and returns undefined.
addEnds(_s) ==
  IF _s.connector = Undef \/ _s.method = Undef \/ _s.args = Undef
  THEN "logged" ELSE "pushed"

add(_s, bound) ==
  /\ Observable
  /\ Len(adds) < bound
  /\ data' = addData(data, _s)
  /\ addResult' = addEnds(_s)
  /\ adds' = Append(adds, _s)
  /\ call' = GoesOn
  /\ UNCHANGED <<ver, web3, mode, privateKey, address, ABI, helpers, origin,
                 instance, lastRes>>

\* ------------------------------------------------------ instance.config

\* Nothing in the class writes instance.config (setInstance ignores its
\* second parameter): a routing configuration is there only when the caller
\* wrote the field of the public `instance` object.
RoutingConfigs ==
  { [defined |-> TRUE, type |-> TypeDirect, gnosisSafe |-> Undef],
    [defined |-> TRUE, type |-> TypeGnosisSafe, gnosisSafe |-> Undef],
    [defined |-> TRUE, type |-> TypeGnosisSafe, gnosisSafe |-> "safe"],
    [defined |-> TRUE, type |-> 2, gnosisSafe |-> Undef] }

assignConfig(_c) ==
  /\ Observable \/ (call.op = "cast" /\ call.pc = "getTxObj")
  /\ instance.defined
  /\ instance' = [instance EXCEPT !.config = _c]
  /\ call' = GoesOn
  /\ UNCHANGED <<ver, web3, mode, privateKey, address, ABI, helpers, origin,
                 data, adds, addResult, lastRes>>

\* ----------------------------------------------------------------- cast

CastParams ==
  { NoParams,
    [NoParams EXCEPT !.origin = "po"],
    [NoParams EXCEPT !.to = "pt", !.from = "u2", !.origin = "po"] }

\* _c.methods.cast(..._espell, _d.origin).encodeABI()
CastCallData(_espell, org) ==
  [NoCallData EXCEPT !.method = "cast", !.targets = _espell[1],
                     !.datas = _espell[2], !.origin = org]

\* castD with address.genesis in place of this.origin.
castD_genesis(_d, _addr) ==
  LET _espell == encodeSpells(data)
      to == IF _d.to = Undef THEN instance.address ELSE _d.to
      from == IF _d.from = Undef THEN _addr ELSE _d.from
      org == IF _d.origin = Undef THEN Genesis ELSE _d.origin
  IN [NoD EXCEPT !.from = from, !.to = to, !.origin = org,
                 !.hasType = (ver = 1), !.type = instance.config.type,
                 !.callData = CastCallData(_espell, org)]

\* Lines 220-231 (565-577): the defaults of cast and the encoded call.
castD(_d, _addr) ==
  LET _espell == encodeSpells(data)
      to == IF _d.to = Undef THEN instance.address ELSE _d.to
      from == IF _d.from = Undef THEN _addr ELSE _d.from
      org == IF _d.origin = Undef THEN origin ELSE _d.origin
  IN [NoD EXCEPT !.from = from, !.to = to, !.origin = org,
                 !.hasType = (ver = 1), !.type = instance.config.type,
                 !.callData = CastCallData(_espell, org)]

\* Line 224 (606): this.instance.config.type
readsConfigType(v, op) == op = "castTxObj" \/ v = 1

cast(_d) ==
  /\ Idle
  /\ call' = IF helpers
             THEN [NewCall("cast", _d) EXCEPT !.pc = "getAddress"]
             ELSE Reject(NewCall("cast", _d), "TypeError")
  /\ UNCHANGED facadeAndSpell

cast_getAddress ==
  /\ call.op = "cast" /\ call.pc = "getAddress"
  /\ \E _addr \in getAddressResults :
       call' = IF _addr = "getAddressErr"
               THEN Reject([call EXCEPT !.err = _addr], _addr)
               ELSE IF readsConfigType(ver, "cast") /\ ~instance.config.defined
               THEN Reject(call, "TypeError")
               ELSE [call EXCEPT !.pc = "getTxObj", !.d = castD(call.p, _addr)]
  /\ UNCHANGED facadeAndSpell

\* Lines 235-263 of the first class, 581-586 of the second: what follows
\* `await getTxObj(_d)` inside the promise executor.
castRoute(c) ==
  IF ~c.d.hasType \/ c.d.type = TypeDirect
  THEN [c EXCEPT !.pc = "sendTxn", !.sent = Append(@, getTxObj(c.d))]
  ELSE IF c.d.type = TypeGnosisSafe
  THEN IF instance.config.gnosisSafe = Undef
       THEN Lost(c, "safeAddress is not defined")
       ELSE Lost(c, "TypeError")   \* this.gnosisSafe is never set
  ELSE Lost(c, "type is not vaild")

cast_getTxObj ==
  /\ call.op = "cast" /\ call.pc = "getTxObj"
  /\ \E ok \in BOOLEAN :
       call' = IF ok THEN castRoute(call)
               ELSE Lost([call EXCEPT !.err = "getTxObjErr"], "getTxObjErr")
  /\ UNCHANGED facadeAndSpell

cast_sendTxn ==
  /\ call.op = "cast" /\ call.pc = "sendTxn"
  /\ \E ok \in BOOLEAN :
       call' = IF ok THEN Resolve(call, "tx")
               ELSE Reject([call EXCEPT !.err = "sendTxnErr"], "sendTxnErr")
  /\ UNCHANGED facadeAndSpell

\* ------------------------------------------------------------ castTxObj

\* Lines 280-290.
castTxObjD(_d) ==
  LET _espell == encodeSpells(data)
      to == IF _d.to = Undef THEN instance.address ELSE _d.to
      org == IF _d.origin = Undef THEN origin ELSE _d.origin
  IN [NoD EXCEPT !.from = _d.from, !.to = to, !.origin = org,
                 !.hasType = TRUE, !.type = instance.config.type,
                 !.callData = CastCallData(_espell, org)]

castTxObj(_d) ==
  /\ Idle
  /\ call' = IF ~helpers \/ ~instance.config.defined
             THEN Reject(NewCall("castTxObj", _d), "TypeError")
             ELSE [NewCall("castTxObj", _d) EXCEPT !.pc = "getTxObj",
                                                   !.d = castTxObjD(_d)]
  /\ UNCHANGED facadeAndSpell

castTxObj_getTxObj ==
  /\ call.op = "castTxObj" /\ call.pc = "getTxObj"
  /\ \E ok \in BOOLEAN :
       call' = IF ok THEN Resolve([call EXCEPT !.tx = getTxObj(call.d)], "txObj")
               ELSE Reject([call EXCEPT !.err = "getTxObjErr"], "getTxObjErr")
  /\ UNCHANGED facadeAndSpell

\* ----------------------------------------------------------------- read

ReadProtocols == {"core", "compound", "absent"}

\* readStart answering undefined when the registry has no entry.
readStart_undefined(c, protocol, e) ==
  IF ABI = Undef THEN Reject(c, "TypeError")
  ELSE IF protocol \notin ReadRegistry THEN Resolve(c, Undef)
  ELSE [c EXCEPT !.pc = "call"]

\* Lines 327-333 (650-656): read(_s) up to `.call()`.  With no entry in the
\* registry the contract is made from an undefined ABI: the library either
\* refuses it or makes a contract with no methods, and _c.methods[_s.method]
\* is then not a function (`e` is that outcome).
readStart(c, protocol, e) ==
  IF ABI = Undef THEN Reject(c, "TypeError")
  ELSE IF protocol \notin ReadRegistry THEN Reject(c, e)
  ELSE [c EXCEPT !.pc = "call"]

read(_s) ==
  /\ Idle
  /\ \E e \in {"ContractError", "TypeError"} :
       call' = readStart(NewCall("read", _s), _s.protocol, e)
  /\ UNCHANGED facadeAndSpell

\* The chain's account tuples: what getAccountIdDetails answers for an id.
AccountTuple(id) ==
  <<id, IF id % 2 = 1 THEN "accA" ELSE "accB", 1 + (id % 2)>>
ZeroTuple == <<0, "0x0", 0>>

\* .call() settles; lines 334-339.
read_call ==
  /\ call.op = "read" /\ call.pc = "call"
  /\ \E ok \in BOOLEAN :
       call' = IF ok THEN Resolve([call EXCEPT !.res = AccountTuple(1)], "res")
               ELSE Reject([call EXCEPT !.err = "callErr"], "callErr")
  /\ UNCHANGED facadeAndSpell

\* ---------------------------------------------------------- setInstance

SetInstanceArgs ==
  { [NoParams EXCEPT !.form = f, !.id = i] : f \in {"num", "obj"}, i \in 0..MaxId }
  \cup { [NoParams EXCEPT !.form = "num", !.idv = "notfinite"],
         [NoParams EXCEPT !.form = "obj", !.idv = "notfinite"],
         [NoParams EXCEPT !.form = "obj", !.idv = "missing"] }

\* Lines 91-98 (438-445): how the argument checks end.  The second class
\* assigns `_id` without declaring it: a ReferenceError in strict code.
idCheck(v, _o) ==
  IF _o.form = "obj" /\ (_o.idv = "missing" \/ (_o.idv = "finite" /\ _o.id = 0))
  THEN "dsaId is not defined"
  ELSE IF v = 2 THEN "ReferenceError"
  ELSE IF _o.idv # "finite" THEN "Invaild dsaId"
  ELSE "ok"

\* setInstance(_o, _c) up to the lookup's `.call()`.  On a facade whose
\* constructor returned early, read rejects and the .catch handler throws at
\* this.account.count().
setInstance(_o) ==
  /\ Idle
  /\ call' = IF idCheck(ver, _o) # "ok"
             THEN Reject(NewCall("setInstance", _o), idCheck(ver, _o))
             ELSE IF ABI = Undef
             THEN Lost(NewCall("setInstance", _o), "TypeError")
             ELSE [NewCall("setInstance", _o) EXCEPT !.pc = "call"]
  /\ UNCHANGED facadeAndSpell

\* Lines 108-110: the three assignments of the .then handler.
setFromRes(inst, res) ==
  [inst EXCEPT !.id = res[1], !.address = res[2], !.version = res[3]]

\* The lookup settles: lines 107-114.
setInstance_call ==
  /\ call.op = "setInstance" /\ call.pc = "call"
  /\ \/ \E res \in {AccountTuple(call.p.id), ZeroTuple} :
          /\ instance' = setFromRes(instance, res)
          /\ lastRes' = res
          /\ call' = Resolve([call EXCEPT !.res = res], "instance")
     \/ /\ call' = [call EXCEPT !.pc = "count", !.err = "lookupErr"]
        /\ UNCHANGED <<instance, lastRes>>
  /\ UNCHANGED <<ver, web3, mode, privateKey, address, ABI, helpers, origin,
                 data, adds, addResult>>

\* Lines 115-120: what the .catch handler rejects with, given the count.
afterCount(c, n) ==
  IF n < c.p.id
  THEN Reject([c EXCEPT !.count = n], "dsaId does not exist")
  ELSE Reject([c EXCEPT !.count = n], c.err)

\* this.account.count() settles.
setInstance_count ==
  /\ call.op = "setInstance" /\ call.pc = "count"
  /\ \/ \E n \in 0..MaxCount : call' = afterCount(call, n)
     \/ call' = Lost([call EXCEPT !.err = "countErr"], "countErr")
  /\ UNCHANGED facadeAndSpell

\* ----------------------------------------------------------------- Next

Next ==
  \/ \E a \in Origins : setOrigin(a)
  \/ Spell
  \/ \E _s \in Ops : add(_s, MaxSpells)
  \/ \E _c \in RoutingConfigs : assignConfig(_c)
  \/ \E _d \in BuildParams : build(_d)
  \/ build_getAddress
  \/ build_getTxObj
  \/ build_sendTxn
  \/ \E _d \in BuildParams : buildTxObj(_d)
  \/ buildTxObj_getTxObj
  \/ \E _d \in CastParams : cast(_d)
  \/ cast_getAddress
  \/ cast_getTxObj
  \/ cast_sendTxn
  \/ \E _d \in CastParams : castTxObj(_d)
  \/ castTxObj_getTxObj
  \/ \E _s \in { [NoParams EXCEPT !.protocol = q] : q \in ReadProtocols } : read(_s)
  \/ read_call
  \/ \E _o \in SetInstanceArgs : setInstance(_o)
  \/ setInstance_call
  \/ setInstance_count

Spec == Init /\ [][Next]_vars

\* The Spell object and the calls that encode its list, with longer lists.
NextSpell ==
  \/ \E a \in Origins : setOrigin(a)
  \/ Spell
  \/ \E _s \in Ops : add(_s, MaxAdds)
  \/ \E _c \in RoutingConfigs : assignConfig(_c)
  \/ \E _d \in CastParams : cast(_d)
  \/ cast_getAddress
  \/ cast_getTxObj
  \/ cast_sendTxn
  \/ \E _d \in CastParams : castTxObj(_d)
  \/ castTxObj_getTxObj

SpecSpell == Init /\ [][NextSpell]_vars

\* --------------------------------------------------------------- claims

Finished(op) == call.op = op /\ call.pc = "done"

\* Every step the call made outside the class (getAddress, getTxObj, sendTxn,
\* the lookup, the count query) succeeded.
NoOutsideFailure == call.err = "none"

\* C1: in every reachable state `instance` is the genesis placeholder or has
\* id, address and version equal to elements 0, 1 and 2 of the response of
\* the most recent successful setInstance lookup.
C1_InstanceIsGenesisOrLookedUp ==
  /\ instance.defined
  /\ \/ /\ instance.id = GenesisId
        /\ instance.address = Genesis
        /\ instance.version = GenesisVersion
     \/ /\ lastRes # NoRes
        /\ instance.id = lastRes[1]
        /\ instance.address = lastRes[2]
        /\ instance.version = lastRes[3]

\* C2: setInstance of an id greater than the account count fails with the
\* "dsaId does not exist" error and leaves the instance as it was, whatever
\* the lookup answers (an id above MaxCount is above the count whatever the
\* chain's count is).
C2_UnknownIdDoesNotExist ==
  (/\ Finished("setInstance")
   /\ ver = 1
   /\ helpers
   /\ call.p.form = "num" /\ call.p.idv = "finite" /\ call.p.id > MaxCount
   /\ call.err \in {"none", "lookupErr"})
  => /\ call.promise = "rejected"
     /\ call.value = "dsaId does not exist"
     /\ call.res = NoRes

\* C3: on a constructed facade whose instance never got a routing
\* configuration, a cast whose outside steps all succeed submits exactly one
\* transaction through sendTxn and resolves with its result; the transaction
\* goes to the selected instance address, from the signer, with the facade's
\* origin, unless the caller gave those fields.
C3_DirectCastSubmitsOnce ==
  (/\ Finished("cast")
   /\ helpers
   /\ ~instance.config.defined
   /\ NoOutsideFailure)
  => /\ call.promise = "resolved"
     /\ Len(call.sent) = 1
     /\ call.sent[1].to =
          (IF call.p.to = Undef THEN instance.address ELSE call.p.to)
     /\ call.sent[1].from =
          (IF call.p.from = Undef THEN Signer ELSE call.p.from)
     /\ call.sent[1].data.origin =
          (IF call.p.origin = Undef THEN origin ELSE call.p.origin)

\* C4: a cast whose routing type is neither 0 nor 1 ends with its promise
\* rejected with the "type is not valid" error, and nothing is submitted.
C4_InvalidTypeRejects ==
  (/\ Finished("cast")
   /\ call.d.hasType
   /\ call.d.type \notin {TypeDirect, TypeGnosisSafe}
   /\ NoOutsideFailure)
  => /\ call.promise = "rejected"
     /\ call.value = "type is not vaild"
     /\ call.sent = <<>>

\* C5: the transaction build hands to sendTxn goes to the core index
\* contract; its authority and from are the signer address, its version 1
\* and its origin the facade's origin, each unless the caller gave the field,
\* which is then passed through as given.
C5_BuildDefaults ==
  (call.op = "build" /\ call.sent # <<>>)
  => /\ Len(call.sent) = 1
     /\ call.sent[1].to = CoreIndex
     /\ call.sent[1].data.method = "build"
     /\ call.sent[1].from =
          (IF call.p.from = Undef THEN Signer ELSE call.p.from)
     /\ call.sent[1].data.authority =
          (IF call.p.authority = Undef THEN Signer ELSE call.p.authority)
     /\ call.sent[1].data.version =
          (IF call.p.version = 0 THEN 1 ELSE call.p.version)
     /\ call.sent[1].data.origin =
          (IF call.p.origin = Undef THEN origin ELSE call.p.origin)

\* C5 witness: build() with no parameters has submitted its transaction after
\* setOrigin changed the origin.
C5_Witness ==
  /\ call.op = "build" /\ call.p = NoParams /\ Len(call.sent) = 1
  /\ origin = "o1"
  /\ call.sent[1].data.authority = Signer

\* C6: for every parameter object buildTxObj returns the descriptor build
\* would hand to sendTxn, castTxObj the one cast would hand to sendTxn, and
\* neither submits anything.
C6_TxObjIsWhatWouldBeSent ==
  /\ (Finished("buildTxObj") /\ helpers /\ NoOutsideFailure)
     => /\ call.promise = "resolved"
        /\ call.tx = getTxObj(buildD(call.p, Signer))
        /\ call.sent = <<>>
  /\ (Finished("castTxObj") /\ helpers /\ NoOutsideFailure)
     => /\ call.promise = "resolved"
        /\ call.tx.from = (IF call.p.from = Undef THEN Signer ELSE call.p.from)
        /\ call.tx.to = (IF call.p.to = Undef THEN instance.address ELSE call.p.to)
        /\ call.tx.data = CastCallData(encodeSpells(data),
             IF call.p.origin = Undef THEN origin ELSE call.p.origin)
        /\ call.sent = <<>>

Valid(_s) == _s.connector # Undef /\ _s.method # Undef /\ _s.args # Undef

\* C7: add of an operation that lacks connector, method or args ends with an
\* error raised to the caller, not with a log, and leaves the list as it was.
C7_AddRaisesOnMissingField ==
  (adds # <<>> /\ ~Valid(adds[Len(adds)]))
  => /\ addResult = "raised"
     /\ data = SelectSeq(SubSeq(adds, 1, Len(adds) - 1), Valid)

\* C8: the list of a Spell object is the sub-sequence of the operations
\* passed to add that had connector, method and args, in call order; the
\* arrays cast encodes have the list's length, position i holding entry i,
\* and the origin follows them as the last argument.
C8_SpellOrderKept ==
  /\ data = SelectSeq(adds, Valid)
  /\ (call.op \in {"cast", "castTxObj"} /\ call.d.callData.method = "cast")
     => /\ Len(call.d.callData.targets) = Len(data)
        /\ Len(call.d.callData.datas) = Len(data)
        /\ \A i \in 1..Len(data) :
             /\ call.d.callData.targets[i] = data[i].connector
             /\ call.d.callData.datas[i] = <<data[i].method, data[i].args>>
        /\ call.d.callData.origin = call.d.origin

\* C8 witness: cast has encoded a list of two different operations.
C8_Witness ==
  /\ call.op = "cast" /\ Len(call.sent) = 1
  /\ Len(data) = 2 /\ data[1] # data[2]
  /\ call.sent[1].data.targets = <<data[1].connector, data[2].connector>>

AssemblyStep ==
  /\ call'.op \in {"build", "buildTxObj", "cast", "castTxObj"}
  /\ call.pc # "getTxObj" /\ call'.pc = "getTxObj"

\* C9: a step that changes the origin changes nothing else of the facade and
\* sets it to the address given to setOrigin; no step changes web3, mode,
\* private key or the registries; and a build, cast, buildTxObj or castTxObj
\* call encodes the origin the caller gave, or else the facade's origin, which
\* it leaves as it is.
C9_OriginFrame ==
  [][ /\ origin' # origin =>
           /\ origin' \in Origins
           /\ instance' = instance
           /\ call' = GoesOn
      /\ <<web3, mode, privateKey, address, ABI, helpers>>' =
         <<web3, mode, privateKey, address, ABI, helpers>>
      /\ AssemblyStep =>
           /\ origin' = origin
           /\ call'.d.origin =
                (IF call'.p.origin = Undef THEN origin ELSE call'.p.origin)
           /\ call'.d.callData.origin = call'.d.origin ]_vars

\* C9 witness: after setOrigin("o1") a cast without an origin of its own has
\* encoded "o1".
C9_Witness ==
  /\ call.op = "cast" /\ call.pc = "getTxObj" /\ call.p.origin = Undef
  /\ origin = "o1" /\ call.d.callData.origin = "o1"

\* C10: read of a protocol the registry does not hold ends with its promise
\* rejected; it never resolves and is never left pending.
C10_ReadAbsentFails ==
  (call.op = "read" /\ call.p.protocol \notin ReadRegistry)
  => (call.pc = "done" /\ call.promise = "rejected")

\* C10 witness: read of an absent protocol on a facade with its registries.
C10_Witness ==
  /\ call.op = "read" /\ call.p.protocol = "absent" /\ ABI # Undef
  /\ call.promise = "rejected"

\* C11: a build, cast or setInstance call in which a step outside the class
\* failed (getAddress, getTxObj, sendTxn, the lookup, the count query) has, once
\* its code has run to the end, rejected the promise the caller holds with
\* that failure (setInstance with its "dsaId does not exist" message where the
\* count says so); the promise is not left pending and no failure ends as an
\* unobserved rejection.
C11_FailuresReachTheCaller ==
  (/\ call.op \in {"build", "cast", "setInstance"}
   /\ call.pc = "done"
   /\ call.err # "none")
  => /\ call.promise = "rejected"
     /\ call.unhandled = "none"
     /\ \/ call.value = call.err
        \/ call.op = "setInstance" /\ call.value = "dsaId does not exist"
====
